---- MODULE Spec2Model ----
(***************************************************************************)
(* TinyBlue (src/src/tinyblue.py): a menu for a character LCD.  A TinyBlue *)
(* object keeps a registry of Screen objects by path and a stack of the    *)
(* screens that are open; a Screen keeps a list of Item objects, the index *)
(* of the selected line and the index of the first visible line.           *)
(*                                                                         *)
(* Screen objects are shared by reference between the registry and the     *)
(* stack, so they live in a heap (a sequence, the id of a screen being its *)
(* position) and the registry and the stack hold ids.                      *)
(*                                                                         *)
(* Python indexes from 0 and TLA+ sequences from 1: line_index, top_line   *)
(* keep the values of the code and items[k] of the code is items[k + 1].   *)
(* A string is a sequence of one-character strings.                        *)
(***************************************************************************)
EXTENDS Integers, Sequences, FiniteSets

VARIABLES
    num_lines,      \* TinyBlue.num_lines
    num_columns,    \* TinyBlue.num_columns
    auto_render,    \* TinyBlue.auto_render
    screens,        \* TinyBlue.screens: path -> screen id
    screen_stack,   \* TinyBlue.screen_stack: sequence of screen ids
    heap,           \* the Screen objects constructed so far
    lcd,            \* what the display shows, row by row
    last,           \* the last call made on the program and how it ended
    recording,      \* whether the history below is kept
    popped,         \* history: the screens back() has popped so far
    loop            \* the render() of the update loop that the buttons interrupt:
                    \* the lines it computed and the index of the next one to write

vars == <<num_lines, num_columns, auto_render, screens, screen_stack, heap, lcd, last,
          recording, popped, loop>>

----------------------------------------------------------------------------
(* Bounds of the model *)

\* the ids of the Screen objects constructed
ScreenIds == {1, 2}
\* depth of the stack beyond which open_screen is not called
MaxDepth == 3
\* num_lines is drawn from 1..MaxLines
MaxLines == 2

\* num_columns is drawn from this set
ColumnChoices == {3}

\* the path of the root screen, a registered path, a path never registered
Paths == {"/", "/a"}
OpenPaths == Paths \cup {"/x"}

\* scroll directions: 1 to go down, -1 to go up
Directions == {1, -1}

----------------------------------------------------------------------------
(* Item *)

\* on_click: None, a function calling tm.open_screen(path), or a function
\* calling set_text on the first item of the screen (src/example_tinyblue.py,
\* on_click_led, on_click_about, on_click_toggle_led)
NoClick == [kind |-> "none", path |-> ""]
OpenClick(p) == [kind |-> "open", path |-> p]
ToggleClick == [kind |-> "toggle", path |-> ""]

callable(on_click) == on_click.kind # "none"

Item(text, on_click, is_back_button) ==
    [text |-> text, on_click |-> on_click, is_back_button |-> is_back_button]

Spaces(n) == [i \in 1..n |-> " "]

\* a text cut to the width but not padded
get_visible_text_unpadded(item, num_chars) ==
    SubSeq(item.text, 1, IF num_chars < Len(item.text) THEN num_chars ELSE Len(item.text))

get_visible_text(item, num_chars) ==
    LET text == SubSeq(item.text, 1, IF num_chars < Len(item.text) THEN num_chars ELSE Len(item.text))
    IN  text \o Spaces(num_chars - Len(text))

set_text(item, text) == [item EXCEPT !.text = text]

\* the texts on_click_toggle_led sets
TextOn == <<"B", "/", "O", "N">>
TextOff == <<"B", "/", "O", "F", "F">>

\* the item lists Screen is constructed with
ItemLists ==
    { <<>>,
      << Item(<<"B">>, NoClick, TRUE),
         Item(<<"T">>, ToggleClick, FALSE) >>,
      << Item(<<"L", "E", "D">>, OpenClick("/a"), FALSE),
         Item(<<>>, NoClick, FALSE),
         Item(<<"B", "k">>, NoClick, TRUE),
         Item(<<"H">>, OpenClick("/"), TRUE),
         Item(<<"A", "b", "o", "u">>, OpenClick("/x"), FALSE) >> }

----------------------------------------------------------------------------
(* Screen *)

Screen(items) == [items |-> items, top_line |-> 0, line_index |-> 0]

\* a window that lets the selected line be one line below it
BelowWindow_strict(line_index, top_line, n) == line_index > top_line + n

\* line 68: the selected line is below the window
BelowWindow(line_index, top_line, n) == line_index >= top_line + n

\* a window moved down one line too few
ScrolledDown_short(line_index, n) == line_index - n

\* line 69: the window moved down just enough
ScrolledDown(line_index, n) == line_index - n + 1

\* a scroll that stops at the first and the last line instead of wrapping
Screen_scroll_clamped(scr, direction, n) ==
    LET to == scr.line_index + direction
        li == IF to < 0 THEN 0 ELSE IF to >= Len(scr.items) THEN Len(scr.items) - 1 ELSE to
    IN  [scr EXCEPT !.line_index = li,
                    !.top_line = IF BelowWindow(li, scr.top_line, n) THEN ScrolledDown(li, n)
                                 ELSE IF li < scr.top_line THEN li
                                 ELSE @]

\* a scroll that starts the window at the selection
Screen_scroll_top(scr, direction, n) ==
    LET li == (scr.line_index + Len(scr.items) + direction) % Len(scr.items)
    IN  [scr EXCEPT !.line_index = li, !.top_line = li]

Screen_scroll(scr, direction, n) ==
    LET li == (scr.line_index + Len(scr.items) + direction) % Len(scr.items)
    IN  [scr EXCEPT !.line_index = li,
                    !.top_line = IF BelowWindow(li, scr.top_line, n) THEN ScrolledDown(li, n)
                                 ELSE IF li < scr.top_line THEN li
                                 ELSE @]

\* a cursor chosen as select chooses its branch: is_back_button first
Cursor_back_first(scr, k) ==
    IF k = scr.line_index
    THEN IF scr.items[k + 1].is_back_button THEN "<"
         ELSE IF callable(scr.items[k + 1].on_click) THEN "="
         ELSE ">"
    ELSE " "

\* lines 81-89: the cursor of the line at index k
Cursor(scr, k) ==
    IF k = scr.line_index
    THEN IF callable(scr.items[k + 1].on_click) THEN "="
         ELSE IF scr.items[k + 1].is_back_button THEN "<"
         ELSE ">"
    ELSE " "

Screen_render(scr, n, columns) ==
    [i \in 1..n |->
        IF scr.top_line + (i - 1) < Len(scr.items)
        THEN <<Cursor(scr, scr.top_line + (i - 1))>>
             \o get_visible_text(scr.items[scr.top_line + (i - 1) + 1], columns - 1)
        ELSE Spaces(columns)]

\* a reset that forgets the window
Screen_reset_index_only(scr) == [scr EXCEPT !.line_index = 0]

Screen_reset(scr) == [scr EXCEPT !.top_line = 0, !.line_index = 0]

----------------------------------------------------------------------------
(* TinyBlue: each method maps the state it reads and writes,                *)
(* [stack, heap, lcd, popped, err, rendered, invoked], to the state it      *)
(* leaves.  err is the exception that ended the call, rendered the number   *)
(* of renders and invoked the number of on_click calls made during it.      *)

World == [stack |-> screen_stack, heap |-> heap, lcd |-> lcd, popped |-> popped,
          err |-> "none", rendered |-> 0, invoked |-> 0]

Raise(w, e) == [w EXCEPT !.err = e]

\* line 151
NoScreen(stack) == Len(stack) = 0

top_screen(stack) == stack[Len(stack)]

\* lines 176-183: the character written for the first character of a line
Glyph(c) ==
    IF c = ">" THEN "chr0" ELSE IF c = "=" THEN "chr1" ELSE IF c = "<" THEN "chr2" ELSE " "

\* a render that stores the text it shows in the items of the top screen
render_storing(w) ==
    IF NoScreen(w.stack) THEN Raise(w, "TypeError")
    ELSE LET lines == Screen_render(w.heap[top_screen(w.stack)], num_lines, num_columns)
         IN  [w EXCEPT !.lcd = [y \in 1..Len(lines) |-> <<Glyph(lines[y][1])>> \o Tail(lines[y])],
                       !.heap[top_screen(w.stack)].items =
                           [k \in DOMAIN @ |-> set_text(@[k], get_visible_text(@[k], num_columns - 1))],
                       !.rendered = @ + 1]

render(w) ==
    IF NoScreen(w.stack) THEN Raise(w, "TypeError")
    ELSE LET lines == Screen_render(w.heap[top_screen(w.stack)], num_lines, num_columns)
         IN  [w EXCEPT !.lcd = [y \in 1..Len(lines) |-> <<Glyph(lines[y][1])>> \o Tail(lines[y])],
                       !.rendered = @ + 1]

\* a program that never renders by itself
AutoRender_never(w) == w

\* a program that renders whatever auto_render is
AutoRender_always(w) == render(w)

\* if self.auto_render: self.render()
AutoRender(w) == IF auto_render THEN render(w) ELSE w

\* line 162
Registered(path) == path \in DOMAIN screens

\* an open_screen without the test of line 162: self.screens[path] raises
open_screen_unchecked(w, path) ==
    IF Registered(path)
    THEN AutoRender([w EXCEPT !.stack = Append(@, screens[path])])
    ELSE Raise(w, "KeyError")

\* an open_screen that resets the screen it opens
open_screen_reset(w, path) ==
    IF Registered(path)
    THEN AutoRender([w EXCEPT !.stack = Append(@, screens[path]),
                              !.heap[screens[path]] = Screen_reset(@)])
    ELSE w

open_screen(w, path) ==
    IF Registered(path)
    THEN AutoRender([w EXCEPT !.stack = Append(@, screens[path])])
    ELSE w

\* a back that pops the last screen too
CanPop_any(stack) == Len(stack) > 0

\* line 201
CanPop(stack) == Len(stack) > 1

back(w) ==
    IF CanPop(w.stack)
    THEN AutoRender([w EXCEPT !.heap[top_screen(w.stack)] = Screen_reset(@),
                              !.stack = SubSeq(@, 1, Len(@) - 1),
                              !.popped = IF recording THEN @ \cup {top_screen(w.stack)} ELSE @])
    ELSE w

scroll(w, direction) ==
    IF NoScreen(w.stack) THEN Raise(w, "TypeError")
    ELSE IF Len(w.heap[top_screen(w.stack)].items) = 0 THEN Raise(w, "ZeroDivisionError")
    ELSE AutoRender([w EXCEPT !.heap[top_screen(w.stack)] = Screen_scroll(@, direction, num_lines)])

\* item.on_click()
Invoke(w, on_click) ==
    LET w1 == [w EXCEPT !.invoked = @ + 1]
    IN  IF on_click.kind = "open" THEN open_screen(w1, on_click.path)
        ELSE [w1 EXCEPT !.heap[top_screen(w.stack)].items[1] =
                            set_text(@, IF @.text = TextOn THEN TextOff ELSE TextOn)]

\* a select that tests on_click first, as Screen.render does for the cursor
Dispatch_click_first(item) ==
    IF callable(item.on_click) THEN "click"
    ELSE IF item.is_back_button THEN "back"
    ELSE "nothing"

\* lines 212-214: which branch select takes for the item
Dispatch(item) ==
    IF item.is_back_button THEN "back"
    ELSE IF callable(item.on_click) THEN "click"
    ELSE "nothing"

select(w) ==
    IF NoScreen(w.stack) THEN Raise(w, "TypeError")
    ELSE LET scr == w.heap[top_screen(w.stack)]
         IN  IF scr.line_index >= Len(scr.items) THEN Raise(w, "IndexError")
             ELSE LET item == scr.items[scr.line_index + 1]
                  IN  CASE Dispatch(item) = "back" -> back(w)
                        [] Dispatch(item) = "click" ->
                             LET w1 == Invoke(w, item.on_click)
                             IN  IF w1.err = "none" THEN AutoRender(w1) ELSE w1
                        [] OTHER -> w

----------------------------------------------------------------------------
(* The calls made on the program *)

Call(op, path, direction, w) ==
    [op |-> op, path |-> path, direction |-> direction,
     err |-> w.err, rendered |-> w.rendered, invoked |-> w.invoked]

\* the state a method leaves becomes the state of the program
Leave(op, path, direction, w) ==
    /\ screen_stack' = w.stack
    /\ heap' = w.heap
    /\ lcd' = w.lcd
    /\ popped' = w.popped
    /\ last' = Call(op, path, direction, w)

\* no render() of the update loop is in progress
LoopIdle == [lines |-> << >>, row |-> 0]

Configured ==
    /\ num_lines \in 1..MaxLines
    /\ num_columns \in ColumnChoices
    /\ auto_render = TRUE
    /\ screens = << >>
    /\ screen_stack = << >>
    /\ heap = << >>
    /\ lcd = [y \in 1..num_lines |-> Spaces(num_columns)]
    /\ popped = {}
    /\ loop = LoopIdle
    /\ last = Call("init", "", 0, World)

Init == Configured /\ recording = FALSE

\* the same program, with the history of the pops kept
InitHistory == Configured /\ recording = TRUE

\* the screens are constructed and registered before the buttons are enabled
\* (src/example_tinyblue.py: lines 41-84, then lines 86-100)
InSetup == last.op \in {"init", "Screen", "add_screen", "auto_render"}

\* Screen(items)
NewScreen(items) ==
    /\ InSetup
    /\ Len(heap) < Cardinality(ScreenIds)
    /\ heap' = Append(heap, Screen(items))
    /\ last' = Call("Screen", "", 0, World)
    /\ UNCHANGED <<num_lines, num_columns, auto_render, screens, screen_stack, lcd, recording, popped, loop>>

\* tm.auto_render = b
SetAutoRender(b) ==
    /\ InSetup
    /\ auto_render' = b
    /\ last' = Call("auto_render", "", 0, World)
    /\ UNCHANGED <<num_lines, num_columns, screens, screen_stack, heap, lcd, recording, popped, loop>>

AddScreen(path, s) ==
    /\ InSetup
    /\ screens' = [p \in DOMAIN screens \cup {path} |-> IF p = path THEN s ELSE screens[p]]
    /\ screen_stack' = IF path = "/" THEN <<s>> ELSE screen_stack
    /\ last' = Call("add_screen", path, 0, World)
    /\ UNCHANGED <<num_lines, num_columns, auto_render, heap, lcd, recording, popped, loop>>

OpenScreen(path) ==
    /\ Len(screen_stack) < MaxDepth
    /\ Leave("open_screen", path, 0, open_screen(World, path))
    /\ UNCHANGED <<num_lines, num_columns, auto_render, screens, recording, loop>>

Render ==
    /\ Leave("render", "", 0, render(World))
    /\ UNCHANGED <<num_lines, num_columns, auto_render, screens, recording, loop>>

Scroll(direction) ==
    /\ Leave("scroll", "", direction, scroll(World, direction))
    /\ UNCHANGED <<num_lines, num_columns, auto_render, screens, recording, loop>>

Back ==
    /\ Leave("back", "", 0, back(World))
    /\ UNCHANGED <<num_lines, num_columns, auto_render, screens, recording, loop>>

Select ==
    /\ Len(screen_stack) < MaxDepth
    /\ Leave("select", "", 0, select(World))
    /\ UNCHANGED <<num_lines, num_columns, auto_render, screens, recording, loop>>

Next ==
    \/ \E items \in ItemLists : NewScreen(items)
    \/ \E b \in BOOLEAN : SetAutoRender(b)
    \/ \E path \in Paths : \E s \in 1..Len(heap) : AddScreen(path, s)
    \/ \E path \in OpenPaths : OpenScreen(path)
    \/ Render
    \/ \E direction \in Directions : Scroll(direction)
    \/ Back
    \/ Select

Spec == Init /\ [][Next]_vars

SpecHistory == InitHistory /\ [][Next]_vars

----------------------------------------------------------------------------
(* The example program (src/example_tinyblue.py): the update loop calls     *)
(* tm.render() and the handlers of the two buttons call tm.scroll() and     *)
(* tm.select().  A handler runs to its end between two steps of the loop;   *)
(* the render() of the loop is therefore taken in steps: line 172 computes  *)
(* the lines, then lines 173-184 write them one at a time.                  *)

\* line 172 of tm.render() in the update loop
LoopRenderBegin ==
    /\ loop = LoopIdle
    /\ IF NoScreen(screen_stack)
       THEN /\ last' = Call("render", "", 0, Raise(World, "TypeError"))
            /\ loop' = loop
       ELSE /\ last' = Call("render", "", 0, World)
            /\ loop' = [lines |-> Screen_render(heap[top_screen(screen_stack)], num_lines, num_columns),
                        row |-> 0]
    /\ UNCHANGED <<num_lines, num_columns, auto_render, screens, screen_stack, heap, lcd,
                   recording, popped>>

\* lines 173-184 of tm.render() in the update loop, for one y
LoopRenderRow ==
    /\ loop # LoopIdle
    /\ lcd' = [lcd EXCEPT ![loop.row + 1] =
                   <<Glyph(loop.lines[loop.row + 1][1])>> \o Tail(loop.lines[loop.row + 1])]
    /\ loop' = IF loop.row + 1 = Len(loop.lines) THEN LoopIdle
               ELSE [loop EXCEPT !.row = @ + 1]
    /\ UNCHANGED <<num_lines, num_columns, auto_render, screens, screen_stack, heap, last,
                   recording, popped>>

\* interrupt_scroll: tm.scroll()
InterruptScroll == Scroll(1)

\* interrupt_select: tm.select()
InterruptSelect == Select

NextExample ==
    \/ \E items \in ItemLists : NewScreen(items)
    \/ \E b \in BOOLEAN : SetAutoRender(b)
    \/ \E path \in Paths : \E s \in 1..Len(heap) : AddScreen(path, s)
    \/ LoopRenderBegin
    \/ LoopRenderRow
    \/ InterruptScroll
    \/ InterruptSelect

SpecExample == Init /\ [][NextExample]_vars

----------------------------------------------------------------------------
(* Properties *)

\* the screen on top of the stack, the number of its items, its selected item
Top == screen_stack[Len(screen_stack)]
TopCount == Len(heap[Top].items)
TopSelected == heap[Top].items[heap[Top].line_index + 1]
HasSelected == Len(screen_stack) > 0 /\ heap[Top].line_index < TopCount

\* C1: in every screen with at least one item the selected line is inside
\* the window, top_line <= line_index < top_line + num_lines, and line_index
\* and top_line are indexes of items, whatever scrolls and resets were made.
ScrollKeepsSelectionInWindow ==
    \A s \in 1..Len(heap) :
        Len(heap[s].items) > 0 =>
            /\ heap[s].top_line <= heap[s].line_index
            /\ heap[s].line_index < heap[s].top_line + num_lines
            /\ heap[s].line_index \in 0..(Len(heap[s].items) - 1)
            /\ heap[s].top_line \in 0..(Len(heap[s].items) - 1)

\* a scroll has moved the window down and left the selection on its last line
ScrolledWindowReached ==
    /\ last.op = "scroll"
    /\ Len(screen_stack) > 0
    /\ heap[Top].top_line > 0
    /\ num_lines > 1
    /\ heap[Top].line_index = heap[Top].top_line + num_lines - 1

\* C2: once the root screen is registered the stack is never empty and its
\* bottom element is the screen registered under the root path.
RootStaysAtBottom ==
    "/" \in DOMAIN screens =>
        /\ Len(screen_stack) >= 1
        /\ screen_stack[1] = screens["/"]

\* back() was called with the root alone on the stack
BackAtRootReached ==
    /\ "/" \in DOMAIN screens
    /\ last.op = "back"
    /\ Len(screen_stack) = 1
    /\ auto_render
    /\ last.rendered = 0

\* C3: back() at depth > 1 sets line_index and top_line of the top screen to
\* 0 and removes that one element, the elements below keeping their order;
\* at depth 1 it raises nothing and leaves the stack and the screens as they are.
BackPopsOneOrNothing ==
    [][ last'.op = "back" /\ Len(screen_stack) >= 1 =>
          /\ last'.err = "none"
          /\ IF Len(screen_stack) > 1
             THEN /\ screen_stack' = SubSeq(screen_stack, 1, Len(screen_stack) - 1)
                  /\ heap'[Top].line_index = 0
                  /\ heap'[Top].top_line = 0
                  /\ \A s \in 1..Len(heap) : s # Top => heap'[s] = heap[s]
             ELSE UNCHANGED <<screen_stack, heap>> ]_vars

\* back() has popped a screen and left two screens or more on the stack
BackPoppedReached ==
    /\ last.op = "back"
    /\ auto_render
    /\ last.rendered = 1
    /\ Len(screen_stack) >= 2

\* C4: open_screen(path) with a path that is not registered raises nothing
\* and leaves the stack, the registry and every screen unchanged; so does
\* the selection of an item whose on_click opens such a path.
OpenUnknownPathChangesNothing ==
    [][ \/ last'.op = "open_screen" /\ last'.path \notin DOMAIN screens
        \/ /\ last'.op = "select"
           /\ HasSelected
           /\ ~TopSelected.is_back_button
           /\ TopSelected.on_click.kind = "open"
           /\ TopSelected.on_click.path \notin DOMAIN screens
        => /\ last'.err = "none"
           /\ UNCHANGED <<screen_stack, screens, heap>> ]_vars

\* open_screen was called with an unregistered path while two screens were open
OpenUnknownPathReached ==
    /\ last.op = "open_screen"
    /\ last.path \notin DOMAIN screens
    /\ Len(screen_stack) >= 2
    /\ heap[Top].line_index > 0

\* C5: a navigation primitive (scroll, select, back, render, and open_screen
\* with a registered path) called while the stack is empty, no root screen
\* being registered, ends in an error and leaves the stack empty.
NavigationBeforeRootIsFatal ==
    [][ /\ Len(screen_stack) = 0
        /\ \/ last'.op \in {"scroll", "select", "back", "render"}
           \/ last'.op = "open_screen" /\ last'.path \in DOMAIN screens
        => /\ last'.err # "none"
           /\ screen_stack' = screen_stack ]_vars

\* C6: no Screen has an empty item list.
NoScreenWithoutItems ==
    \A s \in 1..Len(heap) : Len(heap[s].items) > 0

\* C7: select() on a back item does to the stack and the screens what back()
\* does and calls no on_click, also when the item has one; on another item
\* with an on_click it calls it once; on an item with neither it leaves the
\* stack, the screens and the display unchanged.
SelectDispatches ==
    [][ last'.op = "select" /\ HasSelected =>
          /\ last'.err = "none"
          /\ TopSelected.is_back_button =>
               /\ last'.invoked = 0
               /\ IF Len(screen_stack) > 1
                  THEN /\ screen_stack' = SubSeq(screen_stack, 1, Len(screen_stack) - 1)
                       /\ heap' = [heap EXCEPT ![Top].line_index = 0, ![Top].top_line = 0]
                  ELSE UNCHANGED <<screen_stack, heap, lcd>>
          /\ (~TopSelected.is_back_button /\ TopSelected.on_click.kind # "none") =>
               last'.invoked = 1
          /\ (~TopSelected.is_back_button /\ TopSelected.on_click.kind = "none") =>
               /\ last'.invoked = 0
               /\ last'.rendered = 0
               /\ UNCHANGED <<screen_stack, heap, lcd>> ]_vars

\* select() on a back item has popped a screen without calling an on_click
SelectPoppedReached ==
    /\ last.op = "select"
    /\ last.invoked = 0
    /\ auto_render
    /\ last.rendered = 1
    /\ Len(screen_stack) >= 1

\* C8: open_screen(path) with a registered path appends screens[path] to the
\* stack, the elements below unchanged, and modifies no screen.
OpenPushesRegisteredScreen ==
    [][ last'.op = "open_screen" /\ last'.path \in DOMAIN screens =>
          /\ last'.err = "none"
          /\ screen_stack' = Append(screen_stack, screens[last'.path])
          /\ heap' = heap ]_vars

\* open_screen has pushed a screen that was scrolled, below which two screens are open
OpenPushedReached ==
    /\ last.op = "open_screen"
    /\ last.path \in DOMAIN screens
    /\ Len(screen_stack) >= 3
    /\ Top = screens[last.path]
    /\ heap[Top].top_line > 0

\* C9: a screen that back() has popped and that is pushed again, by
\* open_screen or by an on_click calling it, is entered with line_index = 0
\* and top_line = 0.
PoppedScreenReentersAtTop ==
    [][ /\ Len(screen_stack') = Len(screen_stack) + 1
        /\ screen_stack'[Len(screen_stack')] \in popped
        => /\ heap'[screen_stack'[Len(screen_stack')]].line_index = 0
           /\ heap'[screen_stack'[Len(screen_stack')]].top_line = 0 ]_vars

\* Screen.scroll applied for each direction of a sequence, from left to right
RECURSIVE ScrollAll(_, _, _)
ScrollAll(scr, directions, n) ==
    IF directions = << >> THEN << >>
    ELSE LET next == Screen_scroll(scr, Head(directions), n)
         IN  <<<<next.line_index, next.top_line>>>> \o ScrollAll(next, Tail(directions), n)

\* C10: scroll with direction 1 or -1 on a screen with items sets line_index
\* to (line_index + count + direction) mod count, and top_line to
\* line_index - num_lines + 1 if the selection is below the window, to
\* line_index if it is above, and leaves it otherwise; with 5 items and 2
\* lines, 1, 1, -1, -1, -1 from (0, 0) gives (1,0), (2,1), (1,1), (0,0), (4,3).
ScrollFollowsFormula ==
    /\ [][ last'.op = "scroll" /\ last'.err = "none" =>
             LET count == TopCount
                 selected == (heap[Top].line_index + count + last'.direction) % count
             IN  /\ heap'[Top].line_index = selected
                 /\ heap'[Top].top_line =
                       IF selected >= heap[Top].top_line + num_lines
                       THEN selected - num_lines + 1
                       ELSE IF selected < heap[Top].top_line THEN selected
                       ELSE heap[Top].top_line
                 /\ (heap[Top].line_index = 0 /\ last'.direction = -1) =>
                       heap'[Top].line_index = count - 1
                 /\ (heap[Top].line_index = count - 1 /\ last'.direction = 1) =>
                       heap'[Top].line_index = 0 ]_vars
    /\ [](ScrollAll(Screen([i \in 1..5 |-> Item(<<>>, NoClick, FALSE)]), <<1, 1, -1, -1, -1>>, 2)
            = << <<1, 0>>, <<2, 1>>, <<1, 1>>, <<0, 0>>, <<4, 3>> >>)

\* a screen of 5 items shown on 2 lines was scrolled up from its first line
ScrolledUpFromFirstReached ==
    /\ last.op = "scroll"
    /\ last.direction = -1
    /\ last.err = "none"
    /\ Len(screen_stack) > 0
    /\ num_lines = 2
    /\ TopCount = 5
    /\ heap[Top].line_index = 4
    /\ heap[Top].top_line = 3

\* Screen.scroll called k times with the same direction
RECURSIVE ScrollTimes(_, _, _, _)
ScrollTimes(scr, direction, n, k) ==
    IF k = 0 THEN scr ELSE ScrollTimes(Screen_scroll(scr, direction, n), direction, n, k - 1)

\* C11: from the state of any screen with items, scroll(1) made as many
\* times as the screen has items brings line_index back to its value, and
\* fewer times (at least one) does not.
FullWrapReturnsSelection ==
    \A s \in 1..Len(heap) :
        Len(heap[s].items) > 0 =>
            /\ ScrollTimes(heap[s], 1, num_lines, Len(heap[s].items)).line_index
                  = heap[s].line_index
            /\ \A k \in 1..(Len(heap[s].items) - 1) :
                  ScrollTimes(heap[s], 1, num_lines, k).line_index # heap[s].line_index

\* a scroll down from the last line of a screen of 5 items has wrapped to the
\* first line
WrappedDownReached ==
    /\ last.op = "scroll"
    /\ last.direction = 1
    /\ last.err = "none"
    /\ Len(screen_stack) > 0
    /\ TopCount = 5
    /\ heap[Top].line_index = 0
    /\ heap[Top].top_line = 0

\* Screen.render is applied with num_columns, with 1 and with MaxColumns
MaxColumns == 6

\* the text of an item on width characters: cut if longer, padded with spaces if shorter
TextOnWidth(item, width) ==
    [i \in 1..width |-> IF i <= Len(item.text) THEN item.text[i] ELSE " "]

\* C12: Screen.render gives num_lines rows whatever the state of the screen,
\* each of one cursor character followed by columns - 1 characters: the text
\* of the item, cut or padded with spaces, or spaces alone past the end of the
\* list; and the display holds num_lines rows of num_columns characters.
\* (widths 1, num_columns and MaxColumns, the last longer than every text)
RenderGivesFixedRows ==
    /\ Len(lcd) = num_lines
    /\ \A y \in 1..Len(lcd) : Len(lcd[y]) = num_columns
    /\ \A s \in 1..Len(heap) : \A columns \in {1, num_columns, MaxColumns} :
          LET rows == Screen_render(heap[s], num_lines, columns)
          IN  /\ DOMAIN rows = 1..num_lines
              /\ \A i \in 1..num_lines :
                    /\ Len(rows[i]) = columns
                    /\ IF heap[s].top_line + (i - 1) < Len(heap[s].items)
                       THEN Tail(rows[i]) =
                               TextOnWidth(heap[s].items[heap[s].top_line + i], columns - 1)
                       ELSE \A c \in 1..columns : rows[i][c] = " "

\* the display shows a screen of which one visible item has a text longer than
\* the line and another an empty text
RenderedCutAndPaddedReached ==
    /\ last.op = "render"
    /\ last.err = "none"
    /\ Len(screen_stack) > 0
    /\ \E i, j \in 1..num_lines :
          /\ heap[Top].top_line + i <= TopCount
          /\ heap[Top].top_line + j <= TopCount
          /\ Len(heap[Top].items[heap[Top].top_line + i].text) > num_columns - 1
          /\ Len(heap[Top].items[heap[Top].top_line + j].text) = 0
          /\ Tail(lcd[i]) = SubSeq(heap[Top].items[heap[Top].top_line + i].text, 1, num_columns - 1)
          /\ Tail(lcd[j]) = Spaces(num_columns - 1)

\* C13: of the rows rendered for the top screen exactly one has a cursor that
\* is not blank, the row line_index - top_line of the selected item.
OneCursorOnSelectedRow ==
    Len(screen_stack) > 0 =>
        LET rows == Screen_render(heap[Top], num_lines, num_columns)
        IN  /\ \E i \in 1..num_lines : rows[i][1] # " "
            /\ \A i \in 1..num_lines :
                  rows[i][1] # " " <=> i - 1 = heap[Top].line_index - heap[Top].top_line

\* the selected item of the top screen is a back button and has an on_click
SelectedIsBackAndAction ==
    /\ HasSelected
    /\ TopSelected.is_back_button
    /\ TopSelected.on_click.kind # "none"

\* the row of the selected item in the rows rendered for the top screen
SelectedRow == heap[Top].line_index - heap[Top].top_line + 1

\* C14 as claimed: the cursor rendered for a selected item that is a back
\* button and has an on_click is the cursor of a back button.
BackActionItemShowsBackCursor ==
    SelectedIsBackAndAction =>
        Screen_render(heap[Top], num_lines, num_columns)[SelectedRow][1] = "<"

\* C14, amended: the cursor rendered for a selected item that is a back
\* button and has an on_click is the cursor of a clickable item, and
\* render() writes the character of clickable items for it, although select()
\* takes such an item for a back button.
BackActionItemShowsActionCursor ==
    SelectedIsBackAndAction =>
        /\ Screen_render(heap[Top], num_lines, num_columns)[SelectedRow][1] = "="
        /\ (last.op = "render" /\ last.err = "none") => lcd[SelectedRow][1] = "chr1"

\* the display was rendered with such an item selected
BackActionItemRenderedReached ==
    /\ SelectedIsBackAndAction
    /\ last.op = "render"
    /\ last.err = "none"
    /\ lcd[SelectedRow][1] = "chr1"

\* what render() writes to the display for a screen
Shown(scr) ==
    [y \in 1..num_lines |->
        <<Glyph(Screen_render(scr, num_lines, num_columns)[y][1])>>
        \o Tail(Screen_render(scr, num_lines, num_columns)[y])]

\* C15 as claimed: with auto_render, a select() on a back item or on an item
\* with an on_click renders the screen that is then on top before it returns.
SelectAlwaysRenders ==
    [][ /\ auto_render
        /\ last'.op = "select"
        /\ HasSelected
        /\ (TopSelected.is_back_button \/ TopSelected.on_click.kind # "none")
        => /\ last'.rendered >= 1
           /\ lcd' = Shown(heap'[screen_stack'[Len(screen_stack')]]) ]_vars

\* C15, amended: with auto_render, a select() on an item with an on_click
\* that is no back button, or on a back item at depth > 1, renders the screen
\* that is then on top before it returns; a select() on a back item at depth
\* 1 renders nothing and leaves the display as it is.
SelectRendersUnlessBackAtRoot ==
    [][ /\ auto_render
        /\ last'.op = "select"
        /\ HasSelected
        /\ (TopSelected.is_back_button \/ TopSelected.on_click.kind # "none")
        => IF TopSelected.is_back_button /\ Len(screen_stack) = 1
           THEN last'.rendered = 0 /\ lcd' = lcd
           ELSE /\ last'.rendered >= 1
                /\ lcd' = Shown(heap'[screen_stack'[Len(screen_stack')]]) ]_vars

\* select() was called on a back item with the root alone on the stack, and
\* rendered nothing
SelectBackAtRootReached ==
    /\ auto_render
    /\ last.op = "select"
    /\ last.err = "none"
    /\ Len(screen_stack) = 1
    /\ HasSelected
    /\ TopSelected.is_back_button
    /\ last.rendered = 0

\* C16: scroll(direction) scrolls the top screen and then renders it if and
\* only if auto_render is true; with auto_render false scroll, open_screen,
\* back and select write nothing to the display, which changes only by a
\* call of render().
ScrollRendersIffAutoRender ==
    /\ [][ last'.op = "scroll" /\ last'.err = "none" =>
             /\ heap'[Top].line_index =
                   (heap[Top].line_index + TopCount + last'.direction) % TopCount
             /\ IF auto_render
                THEN last'.rendered = 1 /\ lcd' = Shown(heap'[Top])
                ELSE last'.rendered = 0 /\ lcd' = lcd ]_vars
    /\ [][ ~auto_render /\ last'.op \in {"scroll", "open_screen", "back", "select"} =>
             last'.rendered = 0 /\ lcd' = lcd ]_vars
    /\ [][ ~auto_render /\ lcd' # lcd => last'.op = "render" ]_vars

\* with auto_render false a scroll has left on the display, rendered before,
\* what is no longer the state of the top screen
ScrolledWithoutRenderReached ==
    /\ ~auto_render
    /\ last.op = "scroll"
    /\ last.err = "none"
    /\ last.rendered = 0
    /\ lcd # [y \in 1..num_lines |-> Spaces(num_columns)]
    /\ lcd # Shown(heap[Top])

\* C17: back() at depth > 1 leaves line_index and top_line of every screen
\* that remains on the stack, the new top screen among them, as they were.
BackLeavesRemainingScreens ==
    [][ last'.op = "back" /\ Len(screen_stack) > 1 =>
          \A i \in 1..(Len(screen_stack) - 1) :
              /\ heap'[screen_stack[i]].line_index = heap[screen_stack[i]].line_index
              /\ heap'[screen_stack[i]].top_line = heap[screen_stack[i]].top_line ]_vars

\* C18: when the render() of the update loop has written its last line, a
\* scroll or a select of a button handler having run, whole, between two of
\* its steps, the display shows the rows of the top screen as it then is.
LoopRenderShowsFinalState ==
    [][ loop # LoopIdle /\ loop' = LoopIdle =>
          lcd' = Shown(heap'[screen_stack'[Len(screen_stack')]]) ]_vars

\* C19: the window of every screen ends within the list when the list can
\* fill it (top_line + num_lines <= count when count >= num_lines) and starts
\* at 0 when the list fits (top_line = 0 when count <= num_lines), so a row
\* past the end of the list is rendered only on a screen of fewer items than
\* num_lines.
WindowWithinList ==
    \A s \in 1..Len(heap) :
        LET count == Len(heap[s].items)
        IN  /\ count >= num_lines => heap[s].top_line + num_lines <= count
            /\ count <= num_lines => heap[s].top_line = 0
            /\ \A i \in 1..num_lines :
                  heap[s].top_line + (i - 1) >= count => count < num_lines

\* a scroll has brought the window of a list longer than it to the end of
\* the list
WindowAtEndReached ==
    /\ last.op = "scroll"
    /\ last.err = "none"
    /\ Len(screen_stack) > 0
    /\ TopCount > num_lines
    /\ heap[Top].top_line > 0
    /\ heap[Top].top_line + num_lines = TopCount

\* C20: render() leaves the stack, the registry, the line_index and top_line
\* of every screen and the text of every item as they were, the rows it
\* writes are those computed from the top screen left so, and a render that
\* follows a render writes the same rows.
RenderLeavesState ==
    [][ last'.op = "render" =>
          /\ screen_stack' = screen_stack
          /\ screens' = screens
          /\ heap' = heap
          /\ num_lines' = num_lines /\ num_columns' = num_columns
          /\ auto_render' = auto_render
          /\ last'.err = "none" => lcd' = Shown(heap[Top])
          /\ (last.op = "render" /\ last.err = "none" /\ last'.err = "none") => lcd' = lcd
      ]_vars

\* a render has shown, cut, the text of an item that is longer than the line,
\* and the item still has its text
RenderedLongTextKeptReached ==
    /\ last.op = "render"
    /\ last.err = "none"
    /\ Len(screen_stack) > 0
    /\ \E i \in 1..num_lines :
          /\ heap[Top].top_line + i <= TopCount
          /\ Len(heap[Top].items[heap[Top].top_line + i].text) > num_columns - 1
          /\ Len(lcd[i]) = num_columns
          /\ Tail(lcd[i]) # heap[Top].items[heap[Top].top_line + i].text

====
